---- MODULE Spec2Model ----
(***************************************************************************)
(* Manifest validation of basemodels/manifest/manifest.py: the conditional *)
(* field rules of Manifest and NestedManifest (the validate_<field>        *)
(* methods), and the remote verification functions validate_manifest_uris, *)
(* traverse_json_entries and validate_manifest_example_images.             *)
(***************************************************************************)
EXTENDS Integers, Sequences, FiniteSets, TLC

(***************************************************************************)
(* Bounds of the model.                                                    *)
(***************************************************************************)
\* largest number of options in a requester_restricted_answer_set input
MaxOptions == 5
\* largest multiple_choice_min_choices / multiple_choice_max_choices input
MaxChoices == 2
\* largest number of top-level entries of a fetched remote collection
MaxEntries == 2
\* number of times validate() is run on one document
MaxRuns == 2

(***************************************************************************)
(* Python values.  Every value carries its type tag, so that truthiness,   *)
(* isinstance and len are computed as Python computes them.  A dict is the *)
(* sequence of its (key, value) items in insertion order.                  *)
(***************************************************************************)
None == [t |-> "None"]
Str(s) == [t |-> "str", v |-> s]
IntVal(i) == [t |-> "int", v |-> i]
Bool(b) == [t |-> "bool", v |-> b]
List(s) == [t |-> "list", v |-> s]
Dict(items) == [t |-> "dict", v |-> items]
EmptyDict == Dict(<<>>)

\* bool(x)
Truthy(x) ==
    CASE x.t = "None" -> FALSE
      [] x.t = "str" -> x.v # ""
      [] x.t = "int" -> x.v # 0
      [] x.t = "bool" -> x.v
      [] x.t = "list" -> Len(x.v) > 0
      [] x.t = "dict" -> Len(x.v) > 0
      [] OTHER -> TRUE

\* len(value.keys()) of a dict, len(value) of a list
PyLen(x) == Len(x.v)

\* data.get(key, default)
Get(data, key, default) == IF key \in DOMAIN data THEN data[key] ELSE default

\* data[key] = value
Put(data, key, value) == [k \in DOMAIN data \cup {key} |-> IF k = key THEN value ELSE data[k]]

(***************************************************************************)
(* Outcome of one validate_<field> method: the message of the              *)
(* ValidationError it raised (NoError when it returned), the data mapping  *)
(* as the method left it, and the number of assignments it made to it.     *)
(***************************************************************************)
NoError == ""
Raise(msg, data) == [error |-> msg, data |-> data, writes |-> 0]
Return(data, writes) == [error |-> NoError, data |-> data, writes |-> writes]

MsgRequestTypeMissing == "request_type missing"
MsgMultiChallenge == "multi_challenge requires multi_challenge_manifests."
MsgMinGreaterThanMax == "multiple_choice_min_choices cannot be greater than multiple_choice_max_choices"
MsgAtLeastTwo == "image_label_multiple_choice needs at least 2+ options in requester_restricted_answer_set"
MsgMoreThanFour == "image_label_multiple_choice can not handle more than 4 options requester_restricted_answer_set"
MsgListsNotAllowed == "Lists are not allowed in this challenge type"
MsgGroundtruthBoth == "Specify only groundtruth_uri or groundtruth, not both."
MsgTaskdataBoth == "Specify only one of taskdata {} or taskdata_uri {}"

BASE_JOB_TYPES ==
    { "image_label_binary", "image_label_multiple_choice", "text_free_entry",
      "text_multiple_choice_one_option", "text_multiple_choice_multiple_options",
      "image_label_area_adjust", "image_label_area_select",
      "image_label_single_polygon", "image_label_multiple_polygons",
      "image_label_semantic_segmentation_one_option",
      "image_label_semantic_segmentation_multiple_options", "image_label_text" }

\* the default answer set injected for image_label_area_select
DefaultAnswerSet == Dict(<< <<"label", EmptyDict>> >>)

validate_request_type(data, value) ==
    IF ~Truthy(Get(data, "request_type", None))
    THEN Raise(MsgRequestTypeMissing, data)
    ELSE IF Get(data, "request_type", None) = Str("multi_challenge")
    THEN IF ~Truthy(Get(data, "multi_challenge_manifests", None))
         THEN Raise(MsgMultiChallenge, data)
         ELSE Return(data, 0)
    ELSE IF Get(data, "request_type", None) \in
              {Str("image_label_multiple_choice"), Str("image_label_area_select")}
    THEN IF Get(data, "multiple_choice_min_choices", IntVal(1)).v
              > Get(data, "multiple_choice_max_choices", IntVal(1)).v
         THEN Raise(MsgMinGreaterThanMax, data)
         ELSE Return(data, 0)
    ELSE Return(data, 0)

\* faulty variant: the upper bound is tested with >= instead of >
Manifest_validate_requester_restricted_answer_set_AtMostThree(data, value) ==
    IF ~Truthy(Get(data, "request_type", None))
    THEN Raise(MsgRequestTypeMissing, data)
    ELSE LET inject == /\ data["request_type"] = Str("image_label_area_select")
                       /\ (~Truthy(value) \/ PyLen(value) = 0)
             value1 == IF inject THEN DefaultAnswerSet ELSE value
             data1 == IF inject
                      THEN Put(data, "requester_restricted_answer_set", value1)
                      ELSE data
             writes == IF inject THEN 1 ELSE 0
         IN IF data1["request_type"] = Str("image_label_multiple_choice")
            THEN IF ~Truthy(value1) \/ PyLen(value1) <= 1
                 THEN Raise(MsgAtLeastTwo, data1)
                 ELSE IF PyLen(value1) >= 4
                 THEN Raise(MsgMoreThanFour, data1)
                 ELSE Return(data1, writes)
            ELSE Return(data1, writes)

\* faulty variant: the default is injected whether or not an answer set was supplied
Manifest_validate_requester_restricted_answer_set_AlwaysInject(data, value) ==
    IF ~Truthy(Get(data, "request_type", None))
    THEN Raise(MsgRequestTypeMissing, data)
    ELSE LET inject == /\ data["request_type"] = Str("image_label_area_select")
                       /\ TRUE
             value1 == IF inject THEN DefaultAnswerSet ELSE value
             data1 == IF inject
                      THEN Put(data, "requester_restricted_answer_set", value1)
                      ELSE data
             writes == IF inject THEN 1 ELSE 0
         IN IF data1["request_type"] = Str("image_label_multiple_choice")
            THEN IF ~Truthy(value1) \/ PyLen(value1) <= 1
                 THEN Raise(MsgAtLeastTwo, data1)
                 ELSE IF PyLen(value1) > 4
                 THEN Raise(MsgMoreThanFour, data1)
                 ELSE Return(data1, writes)
            ELSE Return(data1, writes)

Manifest_validate_requester_restricted_answer_set(data, value) ==
    IF ~Truthy(Get(data, "request_type", None))
    THEN Raise(MsgRequestTypeMissing, data)
    ELSE LET inject == /\ data["request_type"] = Str("image_label_area_select")
                       /\ (~Truthy(value) \/ PyLen(value) = 0)
             value1 == IF inject THEN DefaultAnswerSet ELSE value
             data1 == IF inject
                      THEN Put(data, "requester_restricted_answer_set", value1)
                      ELSE data
             writes == IF inject THEN 1 ELSE 0
         IN IF data1["request_type"] = Str("image_label_multiple_choice")
            THEN IF ~Truthy(value1) \/ PyLen(value1) <= 1
                 THEN Raise(MsgAtLeastTwo, data1)
                 ELSE IF PyLen(value1) > 4
                 THEN Raise(MsgMoreThanFour, data1)
                 ELSE Return(data1, writes)
            ELSE Return(data1, writes)

\* faulty variant: a single-entry answer set is treated as empty
NestedManifest_validate_requester_restricted_answer_set_OverwriteSingle(data, value) ==
    IF ~Truthy(Get(data, "request_type", None))
    THEN Raise(MsgRequestTypeMissing, data)
    ELSE LET inject == /\ data["request_type"] = Str("image_label_area_select")
                       /\ (~Truthy(value) \/ PyLen(value) <= 1)
             value1 == IF inject THEN DefaultAnswerSet ELSE value
             data1 == IF inject
                      THEN Put(data, "requester_restricted_answer_set", value1)
                      ELSE data
             writes == IF inject THEN 1 ELSE 0
         IN IF data1["request_type"] = Str("image_label_multiple_choice")
            THEN IF ~Truthy(value1) \/ PyLen(value1) <= 1
                 THEN Raise(MsgAtLeastTwo, data1)
                 ELSE IF PyLen(value1) > 4
                 THEN Raise(MsgMoreThanFour, data1)
                 ELSE Return(data1, writes)
            ELSE Return(data1, writes)

NestedManifest_validate_requester_restricted_answer_set(data, value) ==
    IF ~Truthy(Get(data, "request_type", None))
    THEN Raise(MsgRequestTypeMissing, data)
    ELSE LET inject == /\ data["request_type"] = Str("image_label_area_select")
                       /\ (~Truthy(value) \/ PyLen(value) = 0)
             value1 == IF inject THEN DefaultAnswerSet ELSE value
             data1 == IF inject
                      THEN Put(data, "requester_restricted_answer_set", value1)
                      ELSE data
             writes == IF inject THEN 1 ELSE 0
         IN IF data1["request_type"] = Str("image_label_multiple_choice")
            THEN IF ~Truthy(value1) \/ PyLen(value1) <= 1
                 THEN Raise(MsgAtLeastTwo, data1)
                 ELSE IF PyLen(value1) > 4
                 THEN Raise(MsgMoreThanFour, data1)
                 ELSE Return(data1, writes)
            ELSE Return(data1, writes)

validate_requester_question_example(data, value) ==
    IF ~Truthy(Get(data, "request_type", None))
    THEN Raise(MsgRequestTypeMissing, data)
    ELSE IF value.t = "list"
              /\ data["request_type"] \notin
                    {Str("image_label_area_select"), Str("image_label_binary")}
    THEN Raise(MsgListsNotAllowed, data)
    ELSE Return(data, 0)

\* faulty variant: or instead of and
validate_groundtruth_Either(data, value) ==
    IF Truthy(Get(data, "groundtruth_uri", None)) \/ Truthy(Get(data, "groundtruth", None))
    THEN Raise(MsgGroundtruthBoth, data)
    ELSE Return(data, 0)

validate_groundtruth(data, value) ==
    IF Truthy(Get(data, "groundtruth_uri", None)) /\ Truthy(Get(data, "groundtruth", None))
    THEN Raise(MsgGroundtruthBoth, data)
    ELSE Return(data, 0)

validate_taskdata_uri(data, value) ==
    IF /\ Truthy(Get(data, "taskdata", None))
       /\ PyLen(Get(data, "taskdata", None)) > 0
       /\ Truthy(Get(data, "taskdata_uri", None))
    THEN Raise(MsgTaskdataBoth, data)
    ELSE Return(data, 0)

(***************************************************************************)
(* The validators bound to the fields of each model class, in the order    *)
(* the fields are declared.  Manifest binds validate_taskdata_uri to both  *)
(* taskdata and taskdata_uri.  validate() checks the shape of the fields   *)
(* and calls every validate_<field> method with the whole data mapping, in *)
(* which a field that was not supplied is None; it collects the errors of  *)
(* all of them, and accepts the document when there is none.               *)
(***************************************************************************)
ManifestValidators ==
    << "requester_restricted_answer_set", "requester_question_example",
       "request_type", "taskdata", "taskdata_uri", "groundtruth" >>

NestedManifestValidators ==
    << "requester_restricted_answer_set", "requester_question_example",
       "request_type", "groundtruth" >>

Validators(k) == IF k = "Manifest" THEN ManifestValidators ELSE NestedManifestValidators

\* the validate_<field> method of class k, applied to the field's current value
RunValidator(k, field, data) ==
    CASE field = "requester_restricted_answer_set" ->
            IF k = "Manifest"
            THEN Manifest_validate_requester_restricted_answer_set(data, data[field])
            ELSE NestedManifest_validate_requester_restricted_answer_set(data, data[field])
      [] field = "requester_question_example" ->
            validate_requester_question_example(data, data[field])
      [] field = "request_type" -> validate_request_type(data, data[field])
      [] field \in {"taskdata", "taskdata_uri"} -> validate_taskdata_uri(data, data[field])
      [] field = "groundtruth" -> validate_groundtruth(data, data[field])

\* request_type = StringType(required=True, choices=...)
RequestTypeChoices(k) ==
    IF k = "Manifest" THEN BASE_JOB_TYPES \cup {"multi_challenge"} ELSE BASE_JOB_TYPES

StaticShapeErrors(k, data) ==
    IF data["request_type"].t = "str" /\ data["request_type"].v \in RequestTypeChoices(k)
    THEN {}
    ELSE {<<"request_type", "shape">>}

RECURSIVE RunValidators(_, _, _)
RunValidators(k, fields, acc) ==
    IF fields = <<>> THEN acc
    ELSE LET r == RunValidator(k, Head(fields), acc.data)
         IN RunValidators(k, Tail(fields),
                [data |-> r.data,
                 errors |-> IF r.error = NoError THEN acc.errors
                            ELSE acc.errors \cup {<<Head(fields), r.error>>},
                 writes |-> acc.writes + r.writes])

\* one run of validate() on a document of class k
RunValidation(k, data) ==
    RunValidators(k, Validators(k),
                  [data |-> data, errors |-> StaticShapeErrors(k, data), writes |-> 0])

(***************************************************************************)
(* Input documents.                                                        *)
(***************************************************************************)
\* a requester-supplied answer set with n options
AnswerSet(n) == Dict([i \in 1..n |-> <<ToString(i), EmptyDict>>])

AnswerSets == {None} \cup {AnswerSet(n) : n \in 0..MaxOptions}

RequestConfigFields == {"multiple_choice_min_choices", "multiple_choice_max_choices"}

\* RequestConfig(raw): both bounds are IntType(default=1)
RequestConfig(raw) ==
    [t |-> "RequestConfig", v |-> [k \in RequestConfigFields |-> Get(raw, k, IntVal(1))]]

RawRequestConfigs ==
    UNION {[S -> {IntVal(i) : i \in 1..MaxChoices}] : S \in SUBSET RequestConfigFields}

RequestConfigs == {None} \cup {RequestConfig(raw) : raw \in RawRequestConfigs}

GroundtruthUri == Str("https://host/groundtruth.json")
TaskdataUri == Str("https://host/taskdata.json")
ExampleUri == Str("https://host/example.png")

ATaskData == [t |-> "TaskData", v |-> [datapoint_uri |-> ExampleUri]]

ANestedManifest ==
    [t |-> "NestedManifest",
     v |-> [request_type |-> Str("image_label_binary"),
            requester_restricted_answer_set |-> AnswerSet(2)]]

ManifestRequestTypes ==
    {None, Str("multi_challenge"), Str("image_label_multiple_choice"),
     Str("image_label_area_select"), Str("text_free_entry")}

NestedRequestTypes ==
    {None, Str("image_label_multiple_choice"), Str("image_label_area_select"),
     Str("image_label_binary")}

QuestionExamples == {None, ExampleUri, List(<<ExampleUri>>)}

\* an answer set whose options carry example images
AnswerSetWithExamples ==
    Dict(<< <<"cat", Dict(<< <<"answer_example_uri", ExampleUri>> >>)>>,
            <<"dog", Dict(<< <<"answer_example_uri", ExampleUri>> >>)>> >>)

\* a Manifest that sets only request_type
BaseManifest ==
    [request_type |-> Str("text_free_entry"),
     requester_restricted_answer_set |-> None,
     requester_question_example |-> None,
     request_config |-> None,
     multi_challenge_manifests |-> None,
     taskdata |-> None,
     taskdata_uri |-> None,
     groundtruth |-> None,
     groundtruth_uri |-> None]

\* documents that vary the discriminator, the answer set and the choice bounds
AnswerSetManifests ==
    {[BaseManifest EXCEPT !["request_type"] = rt,
                          !["requester_restricted_answer_set"] = ras,
                          !["request_config"] = rc,
                          !["multi_challenge_manifests"] = mcm] :
        rt \in ManifestRequestTypes, ras \in AnswerSets, rc \in RequestConfigs,
        mcm \in {None, List(<<>>), List(<<ANestedManifest>>)}}

\* documents that vary the two data-source pairs
DataSourceManifests ==
    {[BaseManifest EXCEPT !["request_type"] = rt,
                          !["requester_restricted_answer_set"] = AnswerSet(n),
                          !["taskdata"] = td,
                          !["taskdata_uri"] = tduri,
                          !["groundtruth"] = gt,
                          !["groundtruth_uri"] = gturi] :
        rt \in {Str("text_free_entry"), Str("image_label_multiple_choice")},
        n \in {1, 2},
        td \in {None, List(<<>>), List(<<ATaskData>>)},
        tduri \in {None, TaskdataUri},
        gt \in {None, Str(""), Str("{}")},
        gturi \in {None, GroundtruthUri}}

\* documents that vary the question example and the answer examples
QuestionExampleManifests ==
    {[BaseManifest EXCEPT !["request_type"] = rt,
                          !["requester_question_example"] = qe,
                          !["requester_restricted_answer_set"] = ras] :
        rt \in ManifestRequestTypes, qe \in QuestionExamples,
        ras \in {None, AnswerSetWithExamples}}

Manifests == AnswerSetManifests \cup DataSourceManifests \cup QuestionExampleManifests

\* a NestedManifest that sets only request_type
BaseNestedManifest ==
    [request_type |-> Str("image_label_binary"),
     requester_restricted_answer_set |-> None,
     requester_question_example |-> None,
     request_config |-> None,
     groundtruth |-> None,
     groundtruth_uri |-> None]

NestedManifests ==
    {[BaseNestedManifest EXCEPT !["request_type"] = rt,
                                !["requester_restricted_answer_set"] = ras,
                                !["request_config"] = rc] :
        rt \in NestedRequestTypes, ras \in AnswerSets, rc \in RequestConfigs}
    \cup
    {[BaseNestedManifest EXCEPT !["groundtruth"] = gt,
                                !["groundtruth_uri"] = gturi,
                                !["requester_question_example"] = qe] :
        gt \in {None, Str(""), Str("{}")}, gturi \in {None, GroundtruthUri},
        qe \in QuestionExamples}

(***************************************************************************)
(* Remote verification.                                                    *)
(*                                                                         *)
(* A response to requests.get is RequestFailed (the request or             *)
(* raise_for_status raised RequestException) or the decoded JSON body.  An *)
(* entry of a remote collection carries what the entry validators of       *)
(* basemodels.manifest.data look at: whether its shape is valid, and the   *)
(* Content-Type a HEAD request for its uri is answered with.               *)
(***************************************************************************)
RequestFailed == [t |-> "RequestException"]

EntryUri == Str("https://host/datapoint")

Entry(valid, content_type) ==
    [t |-> "entry", uri |-> EntryUri, valid |-> valid, content_type |-> content_type]

Entries == {Entry(TRUE, "image/png"), Entry(TRUE, "text/html"), Entry(FALSE, "image/png")}

SUPPORTED_CONTENT_TYPES == {"image/png", "image/jpeg"}

JOB_TYPES_FOR_CONTENT_TYPE_VALIDATION ==
    { "image_label_binary", "image_label_multiple_choice", "image_label_area_adjust",
      "image_label_area_select", "image_label_single_polygon",
      "image_label_multiple_polygons", "image_label_semantic_segmentation_one_option",
      "image_label_semantic_segmentation_multiple_options", "image_label_text" }

MsgUnsupportedType == "Unsupported type"
MsgRequestException == "RequestException"
MsgInvalidEntry == "invalid entry"

\* helpers.validate_content_type, given what requests.head(uri) is answered with
validate_content_type(head) ==
    IF head = "RequestException" THEN MsgRequestException
    ELSE IF head \notin SUPPORTED_CONTENT_TYPES THEN MsgUnsupportedType
    ELSE NoError

\* validate_groundtruth_entry / validate_taskdata_entry: the error raised, or NoError
validate_entry(callback, k, v, validate) ==
    IF ~v.valid THEN MsgInvalidEntry
    ELSE IF validate THEN validate_content_type(v.content_type)
    ELSE NoError

\* the (key, value) pairs the loops of traverse_json_entries visit, in order
Items(data) ==
    CASE data.t = "dict" -> data.v
      [] data.t = "list" -> [i \in 1..Len(data.v) |-> <<None, data.v[i]>>]
      [] OTHER -> <<>>

\* the loop body of lines 355-358 / 361-364, from item i on; an exception
\* raised by the callback leaves the loop and the function
RECURSIVE TraverseFrom(_, _, _, _, _)
TraverseFrom(items, i, callback, validate_image_content_type, acc) ==
    IF i > Len(items) THEN acc
    ELSE LET call == [k |-> items[i][1], v |-> items[i][2],
                      validate |-> validate_image_content_type]
             e == validate_entry(callback, call.k, call.v, call.validate)
             now == [entries_count |-> acc.entries_count + 1,
                     calls |-> Append(acc.calls, call),
                     error |-> e]
         IN IF e # NoError THEN now
            ELSE TraverseFrom(items, i + 1, callback, FALSE, now)

\* faulty variant: the flag is not cleared after the first entry
RECURSIVE TraverseFromKeepFlag(_, _, _, _, _)
TraverseFromKeepFlag(items, i, callback, validate_image_content_type, acc) ==
    IF i > Len(items) THEN acc
    ELSE LET call == [k |-> items[i][1], v |-> items[i][2],
                      validate |-> validate_image_content_type]
             e == validate_entry(callback, call.k, call.v, call.validate)
             now == [entries_count |-> acc.entries_count + 1,
                     calls |-> Append(acc.calls, call),
                     error |-> e]
         IN IF e # NoError THEN now
            ELSE TraverseFromKeepFlag(items, i + 1, callback, validate_image_content_type, now)

traverse_json_entries_KeepFlag(data, callback, validate_image_content_type) ==
    TraverseFromKeepFlag(Items(data), 1, callback, validate_image_content_type,
                         [entries_count |-> 0, calls |-> <<>>, error |-> NoError])

\* faulty variant: the list loop does not count its entries
traverse_json_entries_ListUncounted(data, callback, validate_image_content_type) ==
    LET r == TraverseFrom(Items(data), 1, callback, validate_image_content_type,
                          [entries_count |-> 0, calls |-> <<>>, error |-> NoError])
    IN IF data.t = "list" THEN [r EXCEPT !.entries_count = 0] ELSE r

traverse_json_entries(data, callback, validate_image_content_type) ==
    TraverseFrom(Items(data), 1, callback, validate_image_content_type,
                 [entries_count |-> 0, calls |-> <<>>, error |-> NoError])

UriKeys == <<"groundtruth_uri", "taskdata_uri">>

MsgValidationFailed == "validation failed"
MsgIsEmpty == "is empty"

\* the HEAD requests of the entry validators during one walk: one for every
\* valid entry the callback was asked to check the content type of
HeadRequests(calls) ==
    LET checked == SelectSeq(calls, LAMBDA c : c.validate /\ c.v.valid)
    IN [i \in 1..Len(checked) |-> <<"HEAD", checked[i].v.uri>>]

\* one iteration of the loop of validate_manifest_uris (lines 378-394): s is
\* the run so far, response what requests.get(uri) returns
\* faulty variant: a uri that is None is not skipped
VisitUri_NoSkip(s, manifest, uri_key, response) ==
    LET request_type == Get(manifest, "request_type", Str(""))
        validate_image_content_type ==
            request_type.t = "str" /\ request_type.v \in JOB_TYPES_FOR_CONTENT_TYPE_VALIDATION
        uri == Get(manifest, uri_key, None)
        w == IF response = RequestFailed
             THEN [entries_count |-> 0, calls |-> <<>>, error |-> MsgRequestException]
             ELSE traverse_json_entries(response,
                      [uri_key |-> uri_key, request_type |-> request_type],
                      validate_image_content_type)
        walk == [uri_key |-> uri_key, response |-> response,
                 flag |-> validate_image_content_type,
                 calls |-> w.calls, entries_count |-> w.entries_count,
                 raised |-> w.error]
    IN IF FALSE THEN s
       ELSE [requests |-> Append(s.requests, <<"GET", uri>>) \o HeadRequests(w.calls),
             walks |-> Append(s.walks, walk),
             error |-> IF w.error # NoError THEN <<uri_key, MsgValidationFailed>>
                       ELSE IF w.entries_count = 0 THEN <<uri_key, MsgIsEmpty>>
                       ELSE <<>>]

\* faulty variant: a failed request is made a second time
VisitUri_Retry(s, manifest, uri_key, response) ==
    LET request_type == Get(manifest, "request_type", Str(""))
        validate_image_content_type ==
            request_type.t = "str" /\ request_type.v \in JOB_TYPES_FOR_CONTENT_TYPE_VALIDATION
        uri == Get(manifest, uri_key, None)
        w == IF response = RequestFailed
             THEN [entries_count |-> 0, calls |-> <<>>, error |-> MsgRequestException]
             ELSE traverse_json_entries(response,
                      [uri_key |-> uri_key, request_type |-> request_type],
                      validate_image_content_type)
        walk == [uri_key |-> uri_key, response |-> response,
                 flag |-> validate_image_content_type,
                 calls |-> w.calls, entries_count |-> w.entries_count,
                 raised |-> w.error]
    IN IF uri = None THEN s
       ELSE [requests |-> (IF response = RequestFailed
                            THEN s.requests \o << <<"GET", uri>>, <<"GET", uri>> >>
                            ELSE Append(s.requests, <<"GET", uri>>)) \o HeadRequests(w.calls),
             walks |-> Append(s.walks, walk),
             error |-> IF w.error # NoError THEN <<uri_key, MsgValidationFailed>>
                       ELSE IF w.entries_count = 0 THEN <<uri_key, MsgIsEmpty>>
                       ELSE <<>>]

VisitUri(s, manifest, uri_key, response) ==
    LET request_type == Get(manifest, "request_type", Str(""))
        validate_image_content_type ==
            request_type.t = "str" /\ request_type.v \in JOB_TYPES_FOR_CONTENT_TYPE_VALIDATION
        uri == Get(manifest, uri_key, None)
        w == IF response = RequestFailed
             THEN [entries_count |-> 0, calls |-> <<>>, error |-> MsgRequestException]
             ELSE traverse_json_entries(response,
                      [uri_key |-> uri_key, request_type |-> request_type],
                      validate_image_content_type)
        walk == [uri_key |-> uri_key, response |-> response,
                 flag |-> validate_image_content_type,
                 calls |-> w.calls, entries_count |-> w.entries_count,
                 raised |-> w.error]
    IN IF uri = None THEN s
       ELSE [requests |-> Append(s.requests, <<"GET", uri>>) \o HeadRequests(w.calls),
             walks |-> Append(s.walks, walk),
             error |-> IF w.error # NoError THEN <<uri_key, MsgValidationFailed>>
                       ELSE IF w.entries_count = 0 THEN <<uri_key, MsgIsEmpty>>
                       ELSE <<>>]

\* validate_requester_example_image: the uris it checks
QuestionExampleUris(question_example) ==
    IF question_example.t = "list" THEN question_example.v ELSE <<question_example>>

\* validate_requester_restricted_answer_set_uris: the uris it checks
RECURSIVE AnswerSetUris(_)
AnswerSetUris(items) ==
    IF items = <<>> THEN <<>>
    ELSE LET uris == SelectSeq(Head(items)[2].v, LAMBDA kv : kv[1] = "answer_example_uri")
         IN [i \in 1..Len(uris) |-> uris[i][2]] \o AnswerSetUris(Tail(items))

\* the uris validate_manifest_example_images checks, in order
ExampleImageUris(manifest) ==
    LET question_example == Get(manifest, "requester_question_example", None)
        req_res_answer_set == Get(manifest, "requester_restricted_answer_set", EmptyDict)
    IN (IF Truthy(question_example) THEN QuestionExampleUris(question_example) ELSE <<>>)
       \o (IF Truthy(req_res_answer_set) THEN AnswerSetUris(req_res_answer_set.v) ELSE <<>>)

\* the checks of uris[i..] in order, heads[i] answering the HEAD request for
\* uris[i]; the first error ends the call
RECURSIVE CheckImagesFrom(_, _, _, _)
CheckImagesFrom(uris_, heads, i, acc) ==
    IF i > Len(uris_) THEN acc
    ELSE LET e == validate_content_type(heads[i])
             now == [requests |-> Append(acc.requests, <<"HEAD", uris_[i]>>), error |-> e]
         IN IF e # NoError THEN now ELSE CheckImagesFrom(uris_, heads, i + 1, now)

validate_manifest_example_images(manifest, heads, reqs) ==
    CheckImagesFrom(ExampleImageUris(manifest), heads, 1, [requests |-> reqs, error |-> NoError])

HeadAnswers == {"image/png", "text/html", "RequestException"}

\* the responses requests.get(uri) can return
JsonScalars == {Str("text"), IntVal(7), Bool(TRUE), None}

EntrySeqs(n) == [1..n -> Entries]

JsonCollections ==
    UNION {{List(es) : es \in EntrySeqs(n)}
           \cup {Dict([i \in 1..n |-> <<ToString(i), es[i]>>]) : es \in EntrySeqs(n)}
           : n \in 0..MaxEntries}

Responses == {RequestFailed} \cup JsonScalars \cup JsonCollections

\* what requests.get(uri) can return; requests.get(None) raises MissingSchema,
\* a RequestException
ResponsesTo(uri) == IF uri = None THEN {RequestFailed} ELSE Responses

(***************************************************************************)
(* State.                                                                  *)
(***************************************************************************)
VARIABLES
    kind,        \* the model class of the document: "Manifest" or "NestedManifest"
    data,        \* the document's data mapping
    stage,       \* "constructed", "accepted" or "rejected" (outcome of the last validate())
    errors,      \* the (field, message) errors of the last validate()
    runs,        \* number of validate() runs so far
    prevStage,   \* stage before the last validate()
    prevData,    \* data before the last validate()
    lastWrites,  \* assignments to data made by the last validate()
    uris,        \* validate_manifest_uris: "not_run", "passed" or "failed"
    urisError,   \* the (field, message) of the ValidationError it raised, or <<>>
    requests,    \* the HTTP requests made so far: <<method, uri>>
    requestStage,\* for each request, the stage the document was in when it was made
    walks,       \* one record per uri fetched by validate_manifest_uris
    images       \* validate_manifest_example_images: "not_run", "passed" or "failed"

vars == <<kind, data, stage, errors, runs, prevStage, prevData, lastWrites,
          uris, urisError, requests, requestStage, walks, images>>

validationVars == <<kind, data, stage, errors, runs, prevStage, prevData, lastWrites>>

Init ==
    /\ kind \in {"Manifest", "NestedManifest"}
    /\ data \in (IF kind = "Manifest" THEN Manifests ELSE NestedManifests)
    /\ stage = "constructed"
    /\ errors = {}
    /\ runs = 0
    /\ prevStage = "constructed"
    /\ prevData = data
    /\ lastWrites = 0
    /\ uris = "not_run"
    /\ urisError = <<>>
    /\ requestStage = <<>>
    /\ requests = <<>>
    /\ walks = <<>>
    /\ images = "not_run"

\* model.validate(): the static shape check and every bound validator
Validate ==
    /\ runs < MaxRuns
    /\ LET r == RunValidation(kind, data)
       IN /\ data' = r.data
          /\ errors' = r.errors
          /\ stage' = IF r.errors = {} THEN "accepted" ELSE "rejected"
          /\ lastWrites' = r.writes
    /\ runs' = runs + 1
    /\ prevStage' = stage
    /\ prevData' = data
    /\ UNCHANGED <<kind, uris, urisError, requests, requestStage, walks, images>>

\* validate_manifest_uris(manifest) on the document's data: groundtruth_uri, then
\* taskdata_uri; a uri that is None is skipped, the first error ends the call
ValidateManifestUris ==
    /\ uris = "not_run"
    /\ LET start == [requests |-> requests, walks |-> <<>>, error |-> <<>>]
           Done(s) == /\ requests' = s.requests
                      /\ walks' = s.walks
                      /\ urisError' = s.error
                      /\ uris' = IF s.error = <<>> THEN "passed" ELSE "failed"
       IN \E r1 \in ResponsesTo(Get(data, UriKeys[1], None)) :
             LET s1 == VisitUri(start, data, UriKeys[1], r1)
             IN IF s1.error # <<>> THEN Done(s1)
                ELSE \E r2 \in ResponsesTo(Get(data, UriKeys[2], None)) :
                        Done(VisitUri(s1, data, UriKeys[2], r2))
    /\ requestStage' = requestStage \o [i \in 1..(Len(requests') - Len(requests)) |-> stage]
    /\ UNCHANGED <<validationVars, images>>

\* validate_manifest_example_images(manifest) on the document's data; a call
\* that finds no uri to check makes no request and changes nothing
ValidateManifestExampleImages ==
    /\ images = "not_run"
    /\ ExampleImageUris(data) # <<>>
    /\ \E heads \in [1..Len(ExampleImageUris(data)) -> HeadAnswers] :
          LET r == validate_manifest_example_images(data, heads, requests)
          IN /\ requests' = r.requests
             /\ images' = IF r.error = NoError THEN "passed" ELSE "failed"
    /\ requestStage' = requestStage \o [i \in 1..(Len(requests') - Len(requests)) |-> stage]
    /\ UNCHANGED <<validationVars, uris, urisError, walks>>

Next == Validate \/ ValidateManifestUris \/ ValidateManifestExampleImages

Spec == Init /\ [][Next]_vars

(***************************************************************************)
(* Properties.                                                             *)
(***************************************************************************)
\* number of options of an answer set; an absent answer set has none
Size(x) == IF Truthy(x) THEN PyLen(x) ELSE 0

\* the errors the last validate() reported for a field
RuleErrors(field) == {e \in errors : e[1] = field}

IsMultipleChoice(d) == d["request_type"] = Str("image_label_multiple_choice")
IsAreaSelect(d) == d["request_type"] = Str("image_label_area_select")

GetRequests == SelectSeq(requests, LAMBDA r : r[1] = "GET")

SetsBothTaskdata(d) ==
    /\ "taskdata" \in DOMAIN d
    /\ d["taskdata"].t = "list"
    /\ Len(d["taskdata"].v) > 0
    /\ d["taskdata_uri"] # None

SetsBothGroundtruth(d) ==
    /\ d["groundtruth"].t = "str"
    /\ d["groundtruth"].v # ""
    /\ d["groundtruth_uri"] # None

\* C2 as claimed: a document that sets groundtruth (to any string) together with
\* groundtruth_uri is rejected.
C2_AsClaimed ==
    (runs >= 1 /\ prevData["groundtruth"] # None /\ prevData["groundtruth_uri"] # None)
        => stage = "rejected"

\* C2 as amended: a non-empty inline taskdata together with taskdata_uri is
\* rejected and a non-empty groundtruth string together with groundtruth_uri is
\* rejected; any other combination (only one member of a pair, an empty taskdata
\* list or an empty groundtruth string next to the uri) raises neither error.
C2_DataSourcePairs ==
    runs >= 1 =>
        /\ SetsBothTaskdata(prevData) =>
              /\ stage = "rejected"
              /\ <<"taskdata", MsgTaskdataBoth>> \in errors
              /\ <<"taskdata_uri", MsgTaskdataBoth>> \in errors
        /\ SetsBothGroundtruth(prevData) =>
              /\ stage = "rejected"
              /\ <<"groundtruth", MsgGroundtruthBoth>> \in errors
        /\ ~SetsBothTaskdata(prevData) => \A e \in errors : e[2] # MsgTaskdataBoth
        /\ ~SetsBothGroundtruth(prevData) => \A e \in errors : e[2] # MsgGroundtruthBoth

\* C2 witness: both pairs set, rejected for both
C2_Witness ==
    /\ runs >= 1
    /\ kind = "Manifest"
    /\ SetsBothTaskdata(prevData)
    /\ SetsBothGroundtruth(prevData)
    /\ stage = "rejected"

\* C3: for image_label_multiple_choice, in Manifest and in NestedManifest, the
\* answer-set rule raises no error exactly for answer sets of 2, 3 or 4 options;
\* fewer than 2 (absent, empty, 1) and more than 4 are rejected with two
\* different messages.
C3_MultipleChoiceAnswerSet ==
    (runs >= 1 /\ IsMultipleChoice(prevData)) =>
        LET n == Size(prevData["requester_restricted_answer_set"])
            errs == RuleErrors("requester_restricted_answer_set")
        IN /\ n \in 2..4 <=> errs = {}
           /\ n < 2 => errs = {<<"requester_restricted_answer_set", MsgAtLeastTwo>>}
           /\ n > 4 => errs = {<<"requester_restricted_answer_set", MsgMoreThanFour>>}
           /\ MsgAtLeastTwo # MsgMoreThanFour

\* C3 witness: a NestedManifest with 5 options rejected by the upper bound
C3_Witness ==
    /\ runs >= 1
    /\ kind = "NestedManifest"
    /\ IsMultipleChoice(prevData)
    /\ Size(prevData["requester_restricted_answer_set"]) = 5
    /\ stage = "rejected"
    /\ <<"requester_restricted_answer_set", MsgMoreThanFour>> \in errors

\* C4: for image_label_area_select the answer-set rule raises no error; an
\* absent or empty answer set is replaced by {"label": {}} in the document, a
\* non-empty one is left as the requester supplied it.
C4_AreaSelectDefault ==
    (runs >= 1 /\ IsAreaSelect(prevData)) =>
        /\ RuleErrors("requester_restricted_answer_set") = {}
        /\ data["requester_restricted_answer_set"] =
              IF Size(prevData["requester_restricted_answer_set"]) = 0
              THEN DefaultAnswerSet
              ELSE prevData["requester_restricted_answer_set"]

\* C4 witness: an absent answer set was replaced by the default and accepted
C4_Witness ==
    /\ runs = 1
    /\ IsAreaSelect(prevData)
    /\ prevData["requester_restricted_answer_set"] = None
    /\ data["requester_restricted_answer_set"] = DefaultAnswerSet
    /\ stage = "accepted"

\* C5 as claimed: a multiple-choice or area-select document whose request_config
\* carries multiple_choice_min_choices > multiple_choice_max_choices is rejected
\* with the bounds error (stated for the documents that break no other rule).
C5_AsClaimed ==
    (/\ runs >= 1
     /\ (IsMultipleChoice(prevData) \/ IsAreaSelect(prevData))
     /\ prevData["request_config"] # None
     /\ prevData["request_config"].v["multiple_choice_min_choices"].v
            > prevData["request_config"].v["multiple_choice_max_choices"].v
     /\ errors \subseteq {<<"request_type", MsgMinGreaterThanMax>>})
        => /\ stage = "rejected"
           /\ <<"request_type", MsgMinGreaterThanMax>> \in errors

\* an entry that its validator accepts whether or not the content type is checked
EntryPasses(e) == e.valid /\ e.content_type \in SUPPORTED_CONTENT_TYPES

IsCollection(response) == response.t \in {"dict", "list"}

\* C6: for every fetched uri whose response is a JSON object or array: with zero
\* top-level entries the call is rejected with the empty error for that field;
\* when the walk returns, the count it returns is the number of top-level
\* entries; and with at least one entry, all of them passing, the field is not
\* rejected.
C6_RemoteCollections ==
    \A i \in 1..Len(walks) :
        LET w == walks[i]
            items == Items(w.response)
            n == Len(items)
        IN IsCollection(w.response) =>
              /\ n = 0 => (uris = "failed" /\ urisError = <<w.uri_key, MsgIsEmpty>>)
              /\ (n > 0 /\ w.raised = NoError) => w.entries_count = n
              /\ (n > 0 /\ \A j \in 1..n : EntryPasses(items[j][2])) =>
                    /\ w.raised = NoError
                    /\ w.entries_count = n
                    /\ (urisError = <<>> \/ urisError[1] # w.uri_key)

\* C6 witness: taskdata_uri resolved to a one-key object and passed with count 1
C6_Witness ==
    /\ uris = "passed"
    /\ \E i \in 1..Len(walks) :
          /\ walks[i].uri_key = "taskdata_uri"
          /\ walks[i].response.t = "dict"
          /\ Len(walks[i].response.v) = 1
          /\ walks[i].entries_count = 1

\* C7: a second validate() of a document the first one accepted accepts it again,
\* leaves every field as it was and makes no assignment to the document.
C7_Idempotent ==
    (runs >= 2 /\ prevStage = "accepted") =>
        /\ stage = "accepted"
        /\ data = prevData
        /\ lastWrites = 0

\* C7 witness: a document normalized by the default injection, validated twice
C7_Witness ==
    /\ runs = 2
    /\ prevStage = "accepted"
    /\ stage = "accepted"
    /\ IsAreaSelect(data)
    /\ data["requester_restricted_answer_set"] = DefaultAnswerSet

\* the flag validate_manifest_uris passes for the document's request_type
CallerFlag ==
    /\ data["request_type"].t = "str"
    /\ data["request_type"].v \in JOB_TYPES_FOR_CONTENT_TYPE_VALIDATION

\* the HEAD requests made for entries of remote collections
EntryHeadRequests == SelectSeq(requests, LAMBDA r : r[1] = "HEAD" /\ r[2] = EntryUri)

\* C8: in every walk the callback is called on the entries in document order,
\* with the caller's flag for the first entry and False for every later one, so
\* at most one call asks for the content-type check (at most one HEAD request
\* per walk), and none when the request_type is not one that needs it.
C8_FlagOnFirstEntryOnly ==
    /\ Len(EntryHeadRequests) <= Len(walks)
    /\ ~CallerFlag => EntryHeadRequests = <<>>
    /\ \A i \in 1..Len(walks) :
           LET w == walks[i]
               items == Items(w.response)
           IN /\ w.flag = CallerFlag
              /\ Len(w.calls) <= Len(items)
              /\ \A j \in 1..Len(w.calls) :
                    /\ w.calls[j].k = items[j][1]
                    /\ w.calls[j].v = items[j][2]
                    /\ w.calls[j].validate = (j = 1 /\ w.flag)
              /\ Cardinality({j \in 1..Len(w.calls) : w.calls[j].validate}) <= 1
              /\ ~CallerFlag => \A j \in 1..Len(w.calls) : ~w.calls[j].validate

\* C8 witness: a walk over two entries, the first checked and the second not
C8_Witness ==
    \E i \in 1..Len(walks) :
        /\ walks[i].flag
        /\ Len(walks[i].calls) = 2
        /\ walks[i].calls[1].validate
        /\ ~walks[i].calls[2].validate

\* C9 as claimed: a response that is valid JSON but neither object nor array is
\* rejected with an error other than the empty-collection error.
C9_AsClaimed ==
    \A i \in 1..Len(walks) :
        walks[i].response.t \in {"str", "int", "bool", "None"} =>
            /\ uris = "failed"
            /\ urisError[1] = walks[i].uri_key
            /\ urisError[2] # MsgIsEmpty

\* the first entry of a walk that its validator rejects, 0 when there is none
FirstRejected(w) ==
    LET items == Items(w.response)
        rejected == {j \in 1..Len(items) :
                        validate_entry(w.uri_key, items[j][1], items[j][2], j = 1 /\ w.flag)
                            # NoError}
    IN IF rejected = {} THEN 0
       ELSE CHOOSE j \in rejected : \A k \in rejected : j <= k

\* C10: when validate_manifest_uris fails, the failing uri is the last one
\* fetched and the error names its field: every uri before it passed, taskdata_uri
\* is not fetched after groundtruth_uri failed, a failed fetch validates no entry,
\* a rejected entry is the last entry validated, and every fetched uri was
\* requested exactly once.
C10_FailFast ==
    /\ Len(GetRequests) = Len(walks)
    /\ uris = "failed" =>
          LET n == Len(walks)
              w == walks[n]
          IN /\ n >= 1
             /\ urisError[1] = w.uri_key
             /\ \A i \in 1..(n - 1) : walks[i].raised = NoError /\ walks[i].entries_count > 0
             /\ w.uri_key = "groundtruth_uri" => n = 1
             /\ w.response = RequestFailed => w.calls = <<>>
             /\ (w.raised # NoError /\ w.response # RequestFailed) =>
                    /\ FirstRejected(w) > 0
                    /\ Len(w.calls) = FirstRejected(w)

\* C10 witness: groundtruth_uri failed on its first entry; the second entry was
\* not validated and taskdata_uri, though set, was not fetched
C10_Witness ==
    /\ uris = "failed"
    /\ Len(walks) = 1
    /\ walks[1].uri_key = "groundtruth_uri"
    /\ Get(data, "taskdata_uri", None) # None
    /\ IsCollection(walks[1].response)
    /\ Len(walks[1].response.v) = 2
    /\ Len(walks[1].calls) = 1
    /\ urisError = <<"groundtruth_uri", MsgValidationFailed>>

====
